---- MODULE Spec2Model ----
(***************************************************************************)
(* Model of the paper-check system: TextProcessor (text_processor.py),     *)
(* LCSEngine (lcs_algorithm.py) and PaperCheckSystem (main.py).            *)
(*                                                                         *)
(* A text is a sequence of characters, a character is a one-element name   *)
(* ("a", "A", "1", ",", " ", ...).  A token is a text without whitespace,  *)
(* a token list is a sequence of tokens.  Optional[X] is a sequence of     *)
(* length 0 (None) or 1 (<<x>>).  A similarity is an integer number of     *)
(* ten-thousandths (10000 is 1.0), the grid round(., 4) produces.          *)
(***************************************************************************)
EXTENDS Integers, Sequences, FiniteSets, TLC

VARIABLES
    pc,                     \* position in the running function; for PaperCheckSystem the last call made
    seq_a, seq_b,           \* calculate_lcs_length: arguments
    idx_a, idx_b,           \* calculate_lcs_length: loop indices
    dp_table,               \* calculate_lcs_length: the two row buffers
    lcs_ret,                \* calculate_lcs_length: returned value (Optional)
    raw_input,              \* standardize_text/tokenize_content: input (Optional text)
    tokens_out,             \* tokenize_content(standardize_text(raw_input)) (Optional)
    text_a, text_b,         \* compute_textual_similarity: arguments (Optional texts)
    sim_ret,                \* compute_textual_similarity: outcome of the call
    len_a, len_b, lcs_value,\* score normalisation: len(token_list_a), len(token_list_b), lcs_value
    score,                  \* score normalisation: outcome
    original_content, plagiarized_content,      \* PaperCheckSystem fields
    tokenized_original, tokenized_plagiarized,  \* PaperCheckSystem fields
    result,                 \* outcome of the last PaperCheckSystem call
    loaded,                 \* contents of the most recent successful load_files (Optional pair)
    n_loads, n_calcs        \* number of load_files / calculate_similarity calls made

lcsVars   == <<seq_a, seq_b, idx_a, idx_b, dp_table, lcs_ret>>
textVars  == <<raw_input, tokens_out>>
simVars   == <<text_a, text_b, sim_ret>>
scoreVars == <<len_a, len_b, lcs_value, score>>
sysVars   == <<original_content, plagiarized_content, tokenized_original,
               tokenized_plagiarized, result, loaded, n_loads, n_calcs>>
vars      == <<pc, lcsVars, textVars, simVars, scoreVars, sysVars>>

(***************************************************************************)
(* Bounds of the model.                                                    *)
(***************************************************************************)
MaxSeqLen     == 4      \* longest token sequence given to calculate_lcs_length
MaxTextLen    == 4      \* longest raw text given to standardize_text
MaxSimLen     == 3      \* longest raw text given to compute_textual_similarity
MaxSmallCount == 5      \* small token counts given to the score normalisation
BigCount      == 30000  \* a large token count given to the score normalisation
MaxFileLen    == 1      \* longest file content read by load_files
MaxLoads      == 2      \* load_files calls per run
MaxCalcs      == 2      \* calculate_similarity calls per run

(***************************************************************************)
(* Generic helpers.                                                        *)
(***************************************************************************)
None == <<>>
Some(x) == <<x>>
Max(x, y) == IF x >= y THEN x ELSE y
Min(x, y) == IF x <= y THEN x ELSE y

SeqsUpTo(S, k) == UNION {[1..l -> S] : l \in 0..k}

(***************************************************************************)
(* Characters.  "A" stands for the ASCII upper-case letters, "a" and "b"   *)
(* for the lower-case ones, "1" for the digits, "u4e2d" for the CJK range  *)
(* U+4E00..U+9FFF, "," for ASCII punctuation, "u00c9" and "u00e9" for an   *)
(* upper- and lower-case non-ASCII letter outside every allowed range,     *)
(* " " and "\n" for whitespace.                                            *)
(***************************************************************************)
SpaceChars  == {" ", "\n"}
LowerChars  == {"a", "b"}
UpperChars  == {"A", "B"}
DigitChars  == {"1"}
CjkChars    == {"u4e2d"}
OtherChars  == {",", "u00e9", "u00c9"}

\* str.lower() on one character
LowerChar(c) ==
    CASE c = "A" -> "a"
      [] c = "B" -> "b"
      [] c = "u00c9" -> "u00e9"
      [] OTHER -> c

\* the complement of the character class of the first re.sub:
\* [U+4E00-U+9FFF 0-9 A-Z a-z \s]
InKeptClass(c) ==
    \/ c \in CjkChars
    \/ c \in DigitChars
    \/ c \in UpperChars
    \/ c \in LowerChars
    \/ c \in SpaceChars

\* \s of re, str.isspace of strip() and split()
IsSpace(c) == c \in SpaceChars

(***************************************************************************)
(* TextProcessor (utils/text_processor.py).                                *)
(***************************************************************************)
\* step 1: raw_input.lower()
LowerText(s) == [i \in 1..Len(s) |-> LowerChar(s[i])]

\* step 2 with the replacement text '' instead of ' '
FilterSymbolsDelete(s) == SelectSeq(s, InKeptClass)

\* step 2: every character outside the kept class becomes one space
FilterSymbols(s) == [i \in 1..Len(s) |-> IF InKeptClass(s[i]) THEN s[i] ELSE " "]

\* length of the longest whitespace-only prefix of s
RECURSIVE SpacePrefixLen(_)
SpacePrefixLen(s) ==
    IF s = <<>> \/ ~IsSpace(Head(s)) THEN 0 ELSE 1 + SpacePrefixLen(Tail(s))

\* length of the longest whitespace-free prefix of s
RECURSIVE WordPrefixLen(_)
WordPrefixLen(s) ==
    IF s = <<>> \/ IsSpace(Head(s)) THEN 0 ELSE 1 + WordPrefixLen(Tail(s))

\* step 3: re.sub(r'\s{2,}', ' ', s): every maximal run of two or more
\* whitespace characters becomes one space; a single one is kept as it is
RECURSIVE CollapseSpaces(_)
CollapseSpaces(s) ==
    IF s = <<>> THEN <<>>
    ELSE LET run == SpacePrefixLen(s)
         IN  IF run >= 2
             THEN <<" ">> \o CollapseSpaces(SubSeq(s, run + 1, Len(s)))
             ELSE <<Head(s)>> \o CollapseSpaces(Tail(s))

\* step 4: str.strip()
RECURSIVE RStrip(_)
RStrip(s) ==
    IF s = <<>> \/ ~IsSpace(s[Len(s)]) THEN s ELSE RStrip(SubSeq(s, 1, Len(s) - 1))

Strip(s) == RStrip(SubSeq(s, SpacePrefixLen(s) + 1, Len(s)))

\* TextProcessor.standardize_text; raw is an Optional text
StandardizeText(raw) ==
    IF raw = None \/ raw[1] = <<>>
    THEN <<>>
    ELSE Strip(CollapseSpaces(FilterSymbols(LowerText(raw[1]))))

\* str.split(): the whitespace-free fragments, in order, none empty
RECURSIVE Split(_)
Split(s) ==
    LET rest == SubSeq(s, SpacePrefixLen(s) + 1, Len(s))
        w    == WordPrefixLen(rest)
    IN  IF rest = <<>> THEN <<>>
        ELSE <<SubSeq(rest, 1, w)>> \o Split(SubSeq(rest, w + 1, Len(rest)))

\* TextProcessor.tokenize_content
TokenizeContent(processed_text) ==
    IF processed_text = <<>> THEN <<>> ELSE Split(processed_text)

\* " ".join(tokens)
RECURSIVE JoinTokens(_)
JoinTokens(tokens) ==
    IF tokens = <<>> THEN <<>>
    ELSE IF Len(tokens) = 1 THEN tokens[1]
    ELSE tokens[1] \o <<" ">> \o JoinTokens(Tail(tokens))

(***************************************************************************)
(* LCSEngine.calculate_lcs_length (algorithms/lcs_algorithm.py).           *)
(***************************************************************************)
\* dp_table = [[0] * (m + 1) for _ in range(2)]
ZeroTable(m) == [r \in 0..1 |-> [j \in 0..m |-> 0]]

\* the inner-loop body with the diagonal read replaced by the cell above
CellUpdateAbove(dp, a, b, i, j) ==
    LET current_row == i % 2
        prev_row    == (i - 1) % 2
    IN  IF a[i] = b[j]
        THEN [dp EXCEPT ![current_row][j] = dp[prev_row][j] + 1]
        ELSE [dp EXCEPT ![current_row][j] =
                            Max(dp[prev_row][j], dp[current_row][j - 1])]

\* the inner-loop body with the left neighbour read from the previous row
CellUpdateLeftPrev(dp, a, b, i, j) ==
    LET current_row == i % 2
        prev_row    == (i - 1) % 2
    IN  IF a[i] = b[j]
        THEN [dp EXCEPT ![current_row][j] = dp[prev_row][j - 1] + 1]
        ELSE [dp EXCEPT ![current_row][j] =
                            Max(dp[prev_row][j], dp[prev_row][j - 1])]

\* body of the inner loop: the assignment to dp_table[current_row][idx_b]
CellUpdate(dp, a, b, i, j) ==
    LET current_row == i % 2
        prev_row    == (i - 1) % 2
    IN  IF a[i] = b[j]
        THEN [dp EXCEPT ![current_row][j] = dp[prev_row][j - 1] + 1]
        ELSE [dp EXCEPT ![current_row][j] =
                            Max(dp[prev_row][j], dp[current_row][j - 1])]

\* the inner loop from column j on
RECURSIVE RunCells(_, _, _, _, _)
RunCells(dp, a, b, i, j) ==
    IF j > Len(b) THEN dp ELSE RunCells(CellUpdate(dp, a, b, i, j), a, b, i, j + 1)

\* the outer loop from row i on
RECURSIVE RunRows(_, _, _, _)
RunRows(dp, a, b, i) ==
    IF i > Len(a) THEN dp ELSE RunRows(RunCells(dp, a, b, i, 1), a, b, i + 1)

\* the whole function, returning the row of the other parity
CalculateLcsLengthOtherRow(a, b) ==
    LET n == Len(a)
        m == Len(b)
    IN  IF n = 0 \/ m = 0 THEN 0
        ELSE RunRows(ZeroTable(m), a, b, 1)[(n + 1) % 2][m]

\* the whole function, as one evaluation
CalculateLcsLength(a, b) ==
    LET n == Len(a)
        m == Len(b)
    IN  IF n = 0 \/ m = 0 THEN 0
        ELSE RunRows(ZeroTable(m), a, b, 1)[n % 2][m]

(***************************************************************************)
(* LCSEngine.compute_textual_similarity: the score normalisation.          *)
(* The outcome of a call is a record: Ok(v) when it returns v, Raised(e)   *)
(* when it raises the exception e.                                         *)
(***************************************************************************)
NoResult  == [kind |-> "none", value |-> 0]
Ok(v)     == [kind |-> "ok", value |-> v]
Raised(e) == [kind |-> e, value |-> 0]

\* nearest integer to p / q (q > 0, p >= 0), ties to the even one
RoundHalfEven(p, q) ==
    LET f == p \div q
        r == p % q
    IN  IF 2 * r < q THEN f
        ELSE IF 2 * r > q THEN f + 1
        ELSE IF f % 2 = 0 THEN f ELSE f + 1

\* round(., 4) giving the value as a percentage
Round4Percent(num, den) == RoundHalfEven(num * 1000000, den)

\* round(num / den, 4), in ten-thousandths.  A decimal tie needs den to be
\* a multiple of 32, which no count of this model is.
Round4(num, den) == RoundHalfEven(num * 10000, den)

\* base_length without the "or 1"
BaseLengthUnguarded(n_a, n_b) == n_a

\* base_length taken as the longer of the two token lists
BaseLengthSymmetric(n_a, n_b) == IF Max(n_a, n_b) = 0 THEN 1 ELSE Max(n_a, n_b)

\* base_length = len(token_list_a) or 1; n_a and n_b are the lengths of
\* token_list_a and token_list_b, and only the first is used
BaseLength(n_a, n_b) == IF n_a = 0 THEN 1 ELSE n_a

\* lines 75-79: similarity_ratio = lcs_value / base_length, then
\* round(max(0.0, min(1.0, similarity_ratio)), 4)
ScoreNormalise(lcs, n_a, n_b) ==
    LET base_length == BaseLength(n_a, n_b)
    IN  IF base_length = 0 THEN Raised("ZeroDivisionError")
        ELSE IF lcs > base_length THEN Ok(Round4(1, 1))
        ELSE IF lcs < 0 THEN Ok(Round4(0, 1))
        ELSE Ok(Round4(lcs, base_length))

\* LCSEngine.compute_textual_similarity; ta and tb are Optional texts
ComputeTextualSimilarity(ta, tb) ==
    LET clean_text_a == StandardizeText(ta)
        clean_text_b == StandardizeText(tb)
        token_list_a == TokenizeContent(clean_text_a)
        token_list_b == TokenizeContent(clean_text_b)
        lcs          == CalculateLcsLength(token_list_a, token_list_b)
    IN  ScoreNormalise(lcs, Len(token_list_a), Len(token_list_b))

(***************************************************************************)
(* Reference definitions the claims are stated against.                    *)
(***************************************************************************)
\* s is a subsequence of t
RECURSIVE IsSubsequence(_, _)
IsSubsequence(s, t) ==
    IF s = <<>> THEN TRUE
    ELSE IF t = <<>> THEN FALSE
    ELSE IF Head(s) = Head(t) THEN IsSubsequence(Tail(s), Tail(t))
    ELSE IsSubsequence(s, Tail(t))

\* the elements of a at the positions of S, in order
RECURSIVE Pick(_, _, _)
Pick(a, S, i) ==
    IF i > Len(a) THEN <<>>
    ELSE IF i \in S THEN <<a[i]>> \o Pick(a, S, i + 1)
    ELSE Pick(a, S, i + 1)

\* length of a longest common subsequence, by enumeration
LongestCommon(a, b) ==
    LET lens == {Cardinality(S) : S \in {X \in SUBSET (1..Len(a)) :
                                            IsSubsequence(Pick(a, X, 1), b)}}
    IN  CHOOSE k \in lens : \A l \in lens : l <= k

\* the full (n+1) x (m+1) table of the textbook dynamic program
FullTable(a, b) ==
    LET T[i \in 0..Len(a), j \in 0..Len(b)] ==
            IF i = 0 \/ j = 0 THEN 0
            ELSE IF a[i] = b[j] THEN T[i - 1, j - 1] + 1
            ELSE Max(T[i - 1, j], T[i, j - 1])
    IN  T

FullTableLcs(a, b) == FullTable(a, b)[Len(a), Len(b)]

(***************************************************************************)
(* Idle values of the variables a specification does not use.              *)
(***************************************************************************)
LcsIdle ==
    /\ seq_a = <<>> /\ seq_b = <<>> /\ idx_a = 0 /\ idx_b = 0
    /\ dp_table = <<>> /\ lcs_ret = None
TextIdle  == raw_input = None /\ tokens_out = None
SimIdle   == text_a = None /\ text_b = None /\ sim_ret = NoResult
ScoreIdle == len_a = 0 /\ len_b = 0 /\ lcs_value = 0 /\ score = NoResult
SysIdle ==
    /\ original_content = None /\ plagiarized_content = None
    /\ tokenized_original = None /\ tokenized_plagiarized = None
    /\ result = NoResult
    /\ loaded = None /\ n_loads = 0 /\ n_calcs = 0

(***************************************************************************)
(* calculate_lcs_length, statement by statement.                           *)
(***************************************************************************)
LcsTokens == {<<"a">>, <<"b">>}

InitLcs ==
    /\ pc = "lcs_entry"
    /\ seq_a \in SeqsUpTo(LcsTokens, MaxSeqLen)
    /\ seq_b \in SeqsUpTo(LcsTokens, MaxSeqLen)
    /\ idx_a = 0 /\ idx_b = 0 /\ dp_table = <<>> /\ lcs_ret = None
    /\ TextIdle /\ SimIdle /\ ScoreIdle /\ SysIdle

\* if n == 0 or m == 0: return 0
LcsReturnEmpty ==
    /\ pc = "lcs_entry"
    /\ Len(seq_a) = 0 \/ Len(seq_b) = 0
    /\ lcs_ret' = Some(0)
    /\ pc' = "lcs_done"
    /\ UNCHANGED <<seq_a, seq_b, idx_a, idx_b, dp_table>>

\* dp_table = [[0] * (m + 1) for _ in range(2)]
LcsAllocate ==
    /\ pc = "lcs_entry"
    /\ Len(seq_a) # 0 /\ Len(seq_b) # 0
    /\ dp_table' = ZeroTable(Len(seq_b))
    /\ pc' = "lcs_row"
    /\ UNCHANGED <<seq_a, seq_b, idx_a, idx_b, lcs_ret>>

\* for idx_a in range(1, n + 1): the next row begins
LcsRowBegin ==
    /\ pc = "lcs_row"
    /\ idx_a + 1 <= Len(seq_a)
    /\ idx_a' = idx_a + 1
    /\ idx_b' = 0
    /\ pc' = "lcs_cell"
    /\ UNCHANGED <<seq_a, seq_b, dp_table, lcs_ret>>

\* for idx_b in range(1, m + 1): one cell of the current row
LcsCell ==
    /\ pc = "lcs_cell"
    /\ idx_b + 1 <= Len(seq_b)
    /\ idx_b' = idx_b + 1
    /\ dp_table' = CellUpdate(dp_table, seq_a, seq_b, idx_a, idx_b + 1)
    /\ UNCHANGED <<pc, seq_a, seq_b, idx_a, lcs_ret>>

\* the inner loop is exhausted
LcsRowEnd ==
    /\ pc = "lcs_cell"
    /\ idx_b + 1 > Len(seq_b)
    /\ pc' = "lcs_row"
    /\ UNCHANGED <<seq_a, seq_b, idx_a, idx_b, dp_table, lcs_ret>>

\* the outer loop is exhausted: return dp_table[n % 2][m]
LcsReturn ==
    /\ pc = "lcs_row"
    /\ idx_a + 1 > Len(seq_a)
    /\ lcs_ret' = Some(dp_table[Len(seq_a) % 2][Len(seq_b)])
    /\ pc' = "lcs_done"
    /\ UNCHANGED <<seq_a, seq_b, idx_a, idx_b, dp_table>>

NextLcs ==
    /\ \/ LcsReturnEmpty
       \/ LcsAllocate
       \/ LcsRowBegin
       \/ LcsCell
       \/ LcsRowEnd
       \/ LcsReturn
    /\ UNCHANGED <<textVars, simVars, scoreVars, sysVars>>

SpecLcs == InitLcs /\ [][NextLcs]_vars

\* C1: whenever calculate_lcs_length has returned, the returned integer is
\* the value of the full-table (n+1) x (m+1) dynamic program on seq_a and
\* seq_b, which is the length of a longest common subsequence; the function
\* evaluated in one piece gives the same value.
C1_RollingEqualsFullTable ==
    pc = "lcs_done" =>
        /\ lcs_ret = Some(FullTableLcs(seq_a, seq_b))
        /\ lcs_ret = Some(LongestCommon(seq_a, seq_b))
        /\ lcs_ret = Some(CalculateLcsLength(seq_a, seq_b))

C1_Witness ==
    /\ pc = "lcs_done"
    /\ Len(seq_a) = 3 /\ Len(seq_b) >= 2
    /\ lcs_ret = Some(2)

\* C9: loop invariant of calculate_lcs_length for n, m >= 1: column 0 of
\* both row buffers is 0 in every state; the row read as previous during
\* idx_a = 1 is all zeros; whenever the inner loop of row idx_a has finished,
\* dp_table[idx_a % 2][j] is the LCS length of seq_a[0..idx_a-1] and
\* seq_b[0..j-1] for every j in 0..m; the returned value is
\* dp_table[n % 2][m].
C9_LoopInvariant ==
    dp_table # <<>> =>
        LET n == Len(seq_a)
            m == Len(seq_b)
        IN  /\ n >= 1 /\ m >= 1
            /\ dp_table[0][0] = 0 /\ dp_table[1][0] = 0
            /\ (pc = "lcs_cell" /\ idx_a = 1) =>
                   \A j \in 0..m : dp_table[0][j] = 0
            /\ (pc = "lcs_row" /\ idx_a >= 1) =>
                   \A j \in 0..m :
                       dp_table[idx_a % 2][j] =
                           LongestCommon(SubSeq(seq_a, 1, idx_a), SubSeq(seq_b, 1, j))
            /\ pc = "lcs_done" => lcs_ret = Some(dp_table[n % 2][m])

\* row 3 has just been completed in the buffer that held row 1, and the two
\* rows differ
C9_Witness ==
    /\ pc = "lcs_row"
    /\ idx_a = 3
    /\ \E j \in 1..Len(seq_b) :
           /\ FullTable(seq_a, seq_b)[1, j] # FullTable(seq_a, seq_b)[3, j]
           /\ dp_table[1][j] = FullTable(seq_a, seq_b)[3, j]

(***************************************************************************)
(* tokenize_content(standardize_text(raw_input)) as one call.              *)
(***************************************************************************)
TextChars == {"a", "A", "1", "u4e2d", ",", "u00c9", " ", "\n"}

InitText ==
    /\ pc = "text_entry"
    /\ raw_input \in {None} \cup {Some(t) : t \in SeqsUpTo(TextChars, MaxTextLen)}
    /\ tokens_out = None
    /\ LcsIdle /\ SimIdle /\ ScoreIdle /\ SysIdle

TextRun ==
    /\ pc = "text_entry"
    /\ tokens_out' = Some(TokenizeContent(StandardizeText(raw_input)))
    /\ pc' = "text_done"
    /\ UNCHANGED raw_input

NextText ==
    /\ TextRun
    /\ UNCHANGED <<lcsVars, simVars, scoreVars, sysVars>>

SpecText == InitText /\ [][NextText]_vars

\* a character that can be part of a token: allowed and not whitespace
IsWordChar(c) == c \in CjkChars \cup DigitChars \cup LowerChars \cup UpperChars

\* the text of an Optional text, None read as the empty text
TextOf(raw) == IF raw = None THEN <<>> ELSE raw[1]

\* first positions of the maximal runs of word characters of s
RunStarts(s) ==
    {i \in 1..Len(s) : IsWordChar(s[i]) /\ (i = 1 \/ ~IsWordChar(s[i - 1]))}

\* last position of the maximal run of word characters that starts at i
RunEnd(s, i) ==
    CHOOSE j \in i..Len(s) :
        /\ \A k \in i..j : IsWordChar(s[k])
        /\ j = Len(s) \/ ~IsWordChar(s[j + 1])

\* toks is the ordered list of the maximal runs of word characters of s
IsRunList(toks, s) ==
    /\ Len(toks) = Cardinality(RunStarts(s))
    /\ \A i \in RunStarts(s) :
           toks[Cardinality({r \in RunStarts(s) : r <= i})] = SubSeq(s, i, RunEnd(s, i))

\* C6: tokenize_content(standardize_text(x)) is the ordered list of the
\* maximal runs of allowed characters of the lowercased x, every other
\* character (whitespace included) being a separator; no token is empty or
\* holds whitespace, upper-case ASCII or a disallowed character; None and
\* the empty text give the empty list.
C6_TokensAreMaximalRuns ==
    pc = "text_done" =>
        LET toks == tokens_out[1]
        IN  /\ tokens_out # None
            /\ IsRunList(toks, LowerText(TextOf(raw_input)))
            /\ \A k \in 1..Len(toks) :
                   /\ toks[k] # <<>>
                   /\ \A p \in 1..Len(toks[k]) :
                          toks[k][p] \in CjkChars \cup DigitChars \cup LowerChars
            /\ TextOf(raw_input) = <<>> => toks = <<>>

\* two runs separated only by punctuation stay two tokens
C6_Witness ==
    /\ pc = "text_done"
    /\ raw_input = Some(<<"A", ",", "a", "1">>)
    /\ tokens_out = Some(<< <<"a">>, <<"a", "1">> >>)

(***************************************************************************)
(* compute_textual_similarity as one call on two texts.                    *)
(***************************************************************************)
SimChars == {"a", "B", ",", " "}

InitSim ==
    /\ pc = "sim_entry"
    /\ text_a \in {None} \cup {Some(t) : t \in SeqsUpTo(SimChars, MaxSimLen)}
    /\ text_b \in {None} \cup {Some(t) : t \in SeqsUpTo(SimChars, MaxSimLen)}
    /\ sim_ret = NoResult
    /\ LcsIdle /\ TextIdle /\ ScoreIdle /\ SysIdle

SimRun ==
    /\ pc = "sim_entry"
    /\ sim_ret' = ComputeTextualSimilarity(text_a, text_b)
    /\ pc' = "sim_done"
    /\ UNCHANGED <<text_a, text_b>>

NextSim ==
    /\ SimRun
    /\ UNCHANGED <<lcsVars, textVars, scoreVars, sysVars>>

SpecSim == InitSim /\ [][NextSim]_vars

\* an Optional text without any token: None, empty, or made of whitespace
\* and disallowed characters only
HasNoToken(raw) ==
    \A i \in 1..Len(TextOf(raw)) : ~IsWordChar(LowerChar(TextOf(raw)[i]))

\* C2: the value compute_textual_similarity returns is at least 0.0 and at
\* most 1.0, for all pairs of input texts.
C2_ScoreWithinBounds ==
    pc = "sim_done" =>
        /\ sim_ret.kind = "ok"
        /\ 0 <= sim_ret.value /\ sim_ret.value <= 10000

\* a call that returned a value strictly between the two bounds
C2_Witness ==
    /\ pc = "sim_done"
    /\ sim_ret = Ok(5000)

\* C3: when at least one of the two inputs has an empty token sequence
\* (None, empty, or only whitespace and disallowed characters), the call
\* returns exactly 0.0 and raises nothing.
C3_EmptyInputGivesZero ==
    (pc = "sim_done" /\ (HasNoToken(text_a) \/ HasNoToken(text_b))) =>
        sim_ret = Ok(0)

\* the first input has no token (so the "or 1" is what keeps the division
\* defined) and the second one has some
C3_Witness ==
    /\ pc = "sim_done"
    /\ text_a = Some(<<",", " ">>)
    /\ text_b = Some(<<"a">>)
    /\ sim_ret = Ok(0)

\* C4: for every text with a non-empty token sequence,
\* compute_textual_similarity(text, text) returns exactly 1.0.
C4_IdentityGivesOne ==
    (pc = "sim_done" /\ text_a = text_b /\ ~HasNoToken(text_a)) =>
        sim_ret = Ok(10000)

\* a text of two tokens compared with itself
C4_Witness ==
    /\ pc = "sim_done"
    /\ text_a = Some(<<"a", ",", "B">>)
    /\ text_b = text_a
    /\ sim_ret = Ok(10000)

(***************************************************************************)
(* The score normalisation (lines 75-79) on token counts.  The state is    *)
(* the one the call is in after line 72: the lengths of the two token      *)
(* lists and lcs_value, which is at most the shorter length and equals the *)
(* length of a list exactly when that list is a subsequence of the other.  *)
(***************************************************************************)
Counts == (0..MaxSmallCount) \cup {BigCount - 1, BigCount}

InitScore ==
    /\ pc = "score_entry"
    /\ len_a \in Counts
    /\ len_b \in Counts
    /\ lcs_value \in {k \in Counts : k <= Min(len_a, len_b)}
    /\ score = NoResult
    /\ LcsIdle /\ TextIdle /\ SimIdle /\ SysIdle

ScoreRun ==
    /\ pc = "score_entry"
    /\ score' = ScoreNormalise(lcs_value, len_a, len_b)
    /\ pc' = "score_done"
    /\ UNCHANGED <<len_a, len_b, lcs_value>>

NextScore ==
    /\ ScoreRun
    /\ UNCHANGED <<lcsVars, textVars, simVars, sysVars>>

SpecScore == InitScore /\ [][NextScore]_vars

\* the call is similarity(A, B) with A non-empty, strictly shorter than B
\* and a subsequence of B
ShortAgainstLong ==
    pc = "score_done" /\ len_a >= 1 /\ len_a < len_b /\ lcs_value = len_a

\* the call is similarity(B, A) for such a pair
LongAgainstShort ==
    pc = "score_done" /\ len_b >= 1 /\ len_b < len_a /\ lcs_value = len_b

\* C5 as stated: for every non-empty A and every strictly longer B that
\* contains A as a subsequence, similarity(A, B) = 1.0 and the rounded
\* similarity(B, A) is below 1.0.
C5_AsymmetryAsStated ==
    /\ ShortAgainstLong => score = Ok(10000)
    /\ LongAgainstShort => (score.kind = "ok" /\ score.value < 10000)

\* C5 amended: similarity(A, B) = 1.0; similarity(B, A) is at most 1.0, and
\* below 1.0 whenever len(A) / len(B) < 0.99995 (so whenever B has fewer
\* than 20000 tokens).
C5_AsymmetryUpToRounding ==
    /\ ShortAgainstLong => score = Ok(10000)
    /\ LongAgainstShort =>
           /\ score.kind = "ok" /\ score.value <= 10000
           /\ 20000 * len_b < 19999 * len_a => score.value < 10000

\* similarity(B, A) with two tokens of B's three matched: 0.6667
C5_Witness ==
    /\ LongAgainstShort
    /\ len_a = 3 /\ len_b = 2
    /\ score = Ok(6667)

(***************************************************************************)
(* PaperCheckSystem (main.py): one object, load_files and                  *)
(* calculate_similarity called in any order.                               *)
(***************************************************************************)
FileChars == {"a", "b", " "}

\* what FileManager.load_file_content can give for a path: None when it
\* raises, the decoded content otherwise
FileReads == {None} \cup {Some(t) : t \in SeqsUpTo(FileChars, MaxFileLen)}

\* load_files returned (it returns None)
Done == [kind |-> "done", value |-> 0]

\* truth value of an Optional[str] in an if: None and "" are false
Truthy(content) == content # None /\ content[1] # <<>>

\* preprocess_texts with the test on the content left out
PreprocessAlways(content, tokens) ==
    Some(TokenizeContent(StandardizeText(content)))

\* preprocess_texts, for one of the two contents: the token field after it
Preprocess(content, tokens) ==
    IF Truthy(content)
    THEN Some(TokenizeContent(StandardizeText(content)))
    ELSE tokens

Init ==
    /\ pc = "init"
    /\ original_content = None /\ plagiarized_content = None
    /\ tokenized_original = None /\ tokenized_plagiarized = None
    /\ result = NoResult
    /\ loaded = None /\ n_loads = 0 /\ n_calcs = 0
    /\ LcsIdle /\ TextIdle /\ SimIdle /\ ScoreIdle

\* load_files(orig_path, plag_path); orig_safe and plag_safe are what
\* verify_path_safety gives for the two paths, orig_file and plag_file
\* what load_file_content gives for them
LoadFiles(orig_safe, plag_safe, orig_file, plag_file) ==
    /\ n_loads < MaxLoads
    /\ n_loads' = n_loads + 1
    /\ pc' = "load_files"
    /\ IF ~orig_safe \/ ~plag_safe
       THEN /\ result' = Raised("ValueError")
            /\ UNCHANGED <<original_content, plagiarized_content, loaded>>
       ELSE IF orig_file = None
       THEN /\ result' = Raised("IOError")
            /\ UNCHANGED <<original_content, plagiarized_content, loaded>>
       ELSE IF plag_file = None
       THEN /\ original_content' = orig_file
            /\ result' = Raised("IOError")
            /\ UNCHANGED <<plagiarized_content, loaded>>
       ELSE /\ original_content' = orig_file
            /\ plagiarized_content' = plag_file
            /\ loaded' = Some(<<orig_file[1], plag_file[1]>>)
            /\ result' = Done
    /\ UNCHANGED <<tokenized_original, tokenized_plagiarized, n_calcs>>

\* calculate_similarity()
CalculateSimilarity ==
    LET stale == tokenized_original = None \/ tokenized_plagiarized = None
        tok_o == IF stale THEN Preprocess(original_content, tokenized_original)
                          ELSE tokenized_original
        tok_p == IF stale THEN Preprocess(plagiarized_content, tokenized_plagiarized)
                          ELSE tokenized_plagiarized
        joined == ComputeTextualSimilarity(Some(JoinTokens(tok_o[1])),
                                           Some(JoinTokens(tok_p[1])))
    IN  /\ n_calcs < MaxCalcs
        /\ n_calcs' = n_calcs + 1
        /\ pc' = "calculate_similarity"
        /\ tokenized_original' = tok_o
        /\ tokenized_plagiarized' = tok_p
        /\ result' = IF tok_o = None \/ tok_p = None
                     THEN Raised("RuntimeError")     \* " ".join(None): TypeError, wrapped
                     ELSE IF joined.kind = "ok" THEN joined
                     ELSE Raised("RuntimeError")
        /\ UNCHANGED <<original_content, plagiarized_content, loaded, n_loads>>

Next ==
    /\ \/ \E orig_safe, plag_safe \in BOOLEAN, orig_file, plag_file \in FileReads :
              LoadFiles(orig_safe, plag_safe, orig_file, plag_file)
       \/ CalculateSimilarity
    /\ UNCHANGED <<lcsVars, textVars, simVars, scoreVars>>

Spec == Init /\ [][Next]_vars

\* C7 as stated: on a fresh PaperCheckSystem, after load_files succeeded on
\* two files whose contents are both empty, calculate_similarity returns 0.0.
C7_EmptyFilesGiveZero ==
    (/\ pc = "calculate_similarity"
     /\ n_loads = 1 /\ n_calcs = 1
     /\ loaded = Some(<< <<>>, <<>> >>)) =>
        result = Ok(0)

C10_ScoreOfLatestLoad ==
    (/\ pc = "calculate_similarity"
     /\ result.kind = "ok"
     /\ loaded # None
     /\ original_content = Some(loaded[1][1])
     /\ plagiarized_content = Some(loaded[1][2])) =>
        result = ComputeTextualSimilarity(original_content, plagiarized_content)

====
